---- MODULE Spec2Model ----
(***************************************************************************)
(* Model of app/core/models.py: the account manager (UserManager) and the  *)
(* case-records tables (Victim, Case, Location, Suspect, Motive,           *)
(* Testimony, Clue, Evidence, Message, CallRecord) with the storage        *)
(* layer's behaviour that their field declarations select: required and    *)
(* nullable foreign keys, the one-to-one uniqueness of Case.victim,        *)
(* on_delete=CASCADE / SET_NULL, auto_now_add / auto_now timestamps.       *)
(***************************************************************************)
EXTENDS Integers, FiniteSets, Sequences, TLC

\* ---------------------------------------------------------------- bounds
\* Largest row identity the case table hands out.
MaxCases == 2
\* Largest row identity every other table hands out.
MaxId == 1
\* Largest number of case-records rows persisted at once (all tables).
MaxRows == 4
\* Last value of the wall clock.
MaxTime == 1

\* The absent value of a nullable reference (null=True); row ids start at 1.
None == 0

VARIABLES
    db,      \* the stored tables, one per model: db.<table>[id] is a row
    now,     \* the wall clock (timezone.now)
    users,   \* the stored User rows: users[id]
    su,      \* the create_superuser call in progress, if any
    last     \* what the last operation was and how it ended

vars == <<db, now, users, su, last>>

Tables == {"victims", "cases", "locations", "suspects", "motives",
           "testimonies", "clues", "evidences", "messages", "calls"}
IdsOf(name) == IF name = "cases" THEN 1..MaxCases ELSE 1..MaxId
\* What a caller may pass as a reference: any identity, persisted or not.
Refs(name) == IdsOf(name)
OptRefs(name) == IdsOf(name) \cup {None}

Min(a, b) == IF a < b THEN a ELSE b

\* ------------------------------------------------------------- storage
Empty == [i \in {} |-> None]
Put(t, i, r) == [j \in DOMAIN t \cup {i} |-> IF j = i THEN r ELSE t[j]]
Drop(t, D) == [j \in DOMAIN t \ D |-> t[j]]
\* The identity the storage layer gives a new row: one no row of the table has.
Unused(name) == IdsOf(name) \ DOMAIN db[name]
NewId(name) == CHOOSE i \in Unused(name) : \A j \in Unused(name) : i <= j
RowCount ==
    Cardinality(DOMAIN db.victims) + Cardinality(DOMAIN db.cases)
    + Cardinality(DOMAIN db.locations) + Cardinality(DOMAIN db.suspects)
    + Cardinality(DOMAIN db.motives) + Cardinality(DOMAIN db.testimonies)
    + Cardinality(DOMAIN db.clues) + Cardinality(DOMAIN db.evidences)
    + Cardinality(DOMAIN db.messages) + Cardinality(DOMAIN db.calls)
CanInsert(name) == RowCount < MaxRows /\ Unused(name) # {}

\* A read of the clock: it has not gone back since the previous read, and it
\* may have moved on.
ClockReads == now .. Min(now + 1, MaxTime)
ClockReadsAfter(t) == t .. Min(t + 1, MaxTime)

\* BaseModel on insert: created_at (auto_now_add) and updated_at (auto_now)
\* are each filled by their own read of the clock, created_at first.
BaseModel(t1, t2) == [created_at |-> t1, updated_at |-> t2]
\* (mutation) every save stamps created_at too.
TouchBoth(row, t) == [row EXCEPT !.created_at = t, !.updated_at = t]
\* BaseModel on a later save: auto_now refreshes updated_at; created_at is
\* written back as it is.
Touch(row, t) == [row EXCEPT !.updated_at = t]

\* What an operation leaves in `last`: how it ended and, for a delete, the
\* table of the row it was called on, the tables that lost rows and the tables
\* that had a key cleared.
Outcome(status) == [status |-> status, seed |-> "", removed |-> {}, nulled |-> {}]

\* Model.save() of a new row, of a stored row, and a write the storage refuses.
Insert(name, row, t) ==
    /\ db' = [db EXCEPT ![name] = Put(@, NewId(name), row)]
    /\ now' = t
    /\ last' = Outcome("ok")
    /\ UNCHANGED <<users, su>>
Update(name, i, row, t) ==
    /\ db' = [db EXCEPT ![name] = Put(@, i, row)]
    /\ now' = t
    /\ last' = Outcome("ok")
    /\ UNCHANGED <<users, su>>
Fail(status, t) ==
    /\ now' = t
    /\ last' = Outcome(status)
    /\ UNCHANGED <<db, users, su>>

\* (mutation) the key is not checked.
FkUnchecked(ref, name) == TRUE
\* A foreign key column: the row it names must be stored (null only if null=True).
FkOk(ref, name) == ref \in DOMAIN db[name]
OptFkOk(ref, name) == ref = None \/ ref \in DOMAIN db[name]
\* (mutation) a plain foreign key: no uniqueness.
VictimShared(v, self) == TRUE
\* OneToOneField: the column is unique among the rows that set it.
VictimFree(v, self) ==
    v = None \/ \A c \in DOMAIN db.cases \ {self} : db.cases[c].victim # v

\* ------------------------------------------------------------- deletion
\* Model.delete(): the rows collected from the seed rows d (d[table] is a set
\* of ids) by following every on_delete=CASCADE key backwards.
NoRows == [n \in Tables |-> {}]
Seed(name, i) == [NoRows EXCEPT ![name] = {i}]
\* (mutation) the one-to-one key cascades the wrong way round.
DelVictimsOfCases(d) ==
    d.victims \cup ({db.cases[c].victim : c \in d.cases} \ {None})
DelVictims(d) == d.victims
DelCases(d) ==
    d.cases \cup {c \in DOMAIN db.cases : db.cases[c].victim \in DelVictims(d)}
DelLocations(d) ==
    d.locations \cup {l \in DOMAIN db.locations : db.locations[l].case \in DelCases(d)}
\* (mutation) Suspect.case does not cascade.
DelSuspectsDirectOnly(d) == d.suspects
DelSuspects(d) ==
    d.suspects \cup {s \in DOMAIN db.suspects : db.suspects[s].case \in DelCases(d)}
\* (mutation) Motive.suspect does not cascade.
DelMotivesDirectOnly(d) == d.motives
DelMotives(d) ==
    d.motives \cup {m \in DOMAIN db.motives : db.motives[m].suspect \in DelSuspects(d)}
DelTestimonies(d) ==
    d.testimonies
    \cup {m \in DOMAIN db.testimonies : db.testimonies[m].suspect \in DelSuspects(d)}
\* (mutation) Clue.location does not cascade.
DelCluesCaseOnly(d) ==
    d.clues \cup {k \in DOMAIN db.clues : db.clues[k].case \in DelCases(d)}
DelClues(d) ==
    d.clues \cup {k \in DOMAIN db.clues :
                    \/ db.clues[k].case \in DelCases(d)
                    \/ db.clues[k].location \in DelLocations(d)}
DelEvidences(d) ==
    d.evidences \cup {e \in DOMAIN db.evidences : db.evidences[e].case \in DelCases(d)}
DelMessages(d) ==
    d.messages \cup {m \in DOMAIN db.messages : db.messages[m].case \in DelCases(d)}
DelCalls(d) ==
    d.calls \cup {m \in DOMAIN db.calls : db.calls[m].case \in DelCases(d)}
Collected(d) ==
    [victims |-> DelVictims(d), cases |-> DelCases(d),
     locations |-> DelLocations(d), suspects |-> DelSuspects(d),
     motives |-> DelMotives(d), testimonies |-> DelTestimonies(d),
     clues |-> DelClues(d), evidences |-> DelEvidences(d),
     messages |-> DelMessages(d), calls |-> DelCalls(d)]

\* (mutation) clearing the key also refreshes updated_at.
NullSuspectTouch(row, D) ==
    IF row.related_suspect \in D
    THEN [row EXCEPT !.related_suspect = None, !.updated_at = now]
    ELSE row
\* on_delete=SET_NULL: the surviving rows that name a removed Suspect or
\* Location get the column cleared by an UPDATE of that column alone.
NullSuspect(row, D) ==
    IF row.related_suspect \in D THEN [row EXCEPT !.related_suspect = None] ELSE row
NullLocation(row, D) ==
    IF row.obtained_from \in D THEN [row EXCEPT !.obtained_from = None] ELSE row
Keep(name, D) == Drop(db[name], D[name])
AfterDelete(D) ==
    [victims |-> Keep("victims", D), cases |-> Keep("cases", D),
     locations |-> Keep("locations", D), suspects |-> Keep("suspects", D),
     motives |-> Keep("motives", D), testimonies |-> Keep("testimonies", D),
     clues |-> [k \in DOMAIN Keep("clues", D) |-> NullSuspect(db.clues[k], D.suspects)],
     evidences |-> [e \in DOMAIN Keep("evidences", D) |->
                      NullLocation(NullSuspect(db.evidences[e], D.suspects), D.locations)],
     messages |-> [m \in DOMAIN Keep("messages", D) |->
                      NullSuspect(db.messages[m], D.suspects)],
     calls |-> [m \in DOMAIN Keep("calls", D) |-> NullSuspect(db.calls[m], D.suspects)]]
Delete(name, i) ==
    LET D == Collected(Seed(name, i))
        after == AfterDelete(D)
    IN /\ db' = after
       /\ last' = [status |-> "ok", seed |-> name,
                   removed |-> {n \in Tables : D[n] # {}},
                   nulled |-> {n \in Tables :
                                 \E j \in DOMAIN after[n] : after[n][j] # db[n][j]}]
       /\ UNCHANGED <<now, users, su>>

\* ------------------------------------------------ case-records operations
\* Create<Model> is <Model>.objects.create(...), Save<Model> is save() of a
\* stored row after assigning its columns, Delete<Model> is delete() of a
\* stored row.  The caller chooses the keys; the clock is read as the row is
\* written.

CreateVictim ==
    /\ CanInsert("victims")
    /\ \E t1 \in ClockReads : \E t2 \in ClockReadsAfter(t1) :
         Insert("victims", BaseModel(t1, t2), t2)
SaveVictim ==
    \E i \in DOMAIN db.victims, t \in ClockReads :
         Update("victims", i, Touch(db.victims[i], t), t)
DeleteVictim ==
    \E i \in DOMAIN db.victims : Delete("victims", i)

\* Case: victim, a nullable one-to-one key.
CaseRow(base, v) ==
    [created_at |-> base.created_at, updated_at |-> base.updated_at, victim |-> v]
CreateCase ==
    /\ CanInsert("cases")
    /\ \E v \in OptRefs("victims") : \E t1 \in ClockReads : \E t2 \in ClockReadsAfter(t1) :
         IF ~OptFkOk(v, "victims") THEN Fail("NotFound", t2)
         ELSE IF ~VictimFree(v, None) THEN Fail("Conflict", t2)
         ELSE Insert("cases", CaseRow(BaseModel(t1, t2), v), t2)
SaveCase ==
    \E i \in DOMAIN db.cases, v \in OptRefs("victims"), t \in ClockReads :
         IF ~OptFkOk(v, "victims") THEN Fail("NotFound", t)
         ELSE IF ~VictimFree(v, i) THEN Fail("Conflict", t)
         ELSE Update("cases", i, CaseRow(Touch(db.cases[i], t), v), t)
DeleteCase ==
    \E i \in DOMAIN db.cases : Delete("cases", i)

\* Location and Suspect: one required key, case.
OfCase(base, c) ==
    [created_at |-> base.created_at, updated_at |-> base.updated_at, case |-> c]
CreateLocation ==
    /\ CanInsert("locations")
    /\ \E c \in Refs("cases") : \E t1 \in ClockReads : \E t2 \in ClockReadsAfter(t1) :
         IF ~FkOk(c, "cases") THEN Fail("NotFound", t2)
         ELSE Insert("locations", OfCase(BaseModel(t1, t2), c), t2)
SaveLocation ==
    \E i \in DOMAIN db.locations, c \in Refs("cases"), t \in ClockReads :
         IF ~FkOk(c, "cases") THEN Fail("NotFound", t)
         ELSE Update("locations", i, OfCase(Touch(db.locations[i], t), c), t)
DeleteLocation ==
    \E i \in DOMAIN db.locations : Delete("locations", i)

CreateSuspect ==
    /\ CanInsert("suspects")
    /\ \E c \in Refs("cases") : \E t1 \in ClockReads : \E t2 \in ClockReadsAfter(t1) :
         IF ~FkOk(c, "cases") THEN Fail("NotFound", t2)
         ELSE Insert("suspects", OfCase(BaseModel(t1, t2), c), t2)
SaveSuspect ==
    \E i \in DOMAIN db.suspects, c \in Refs("cases"), t \in ClockReads :
         IF ~FkOk(c, "cases") THEN Fail("NotFound", t)
         ELSE Update("suspects", i, OfCase(Touch(db.suspects[i], t), c), t)
DeleteSuspect ==
    \E i \in DOMAIN db.suspects : Delete("suspects", i)

\* Motive and Testimony: one required key, suspect.
OfSuspect(base, s) ==
    [created_at |-> base.created_at, updated_at |-> base.updated_at, suspect |-> s]
CreateMotive ==
    /\ CanInsert("motives")
    /\ \E s \in Refs("suspects") : \E t1 \in ClockReads : \E t2 \in ClockReadsAfter(t1) :
         IF ~FkOk(s, "suspects") THEN Fail("NotFound", t2)
         ELSE Insert("motives", OfSuspect(BaseModel(t1, t2), s), t2)
SaveMotive ==
    \E i \in DOMAIN db.motives, s \in Refs("suspects"), t \in ClockReads :
         IF ~FkOk(s, "suspects") THEN Fail("NotFound", t)
         ELSE Update("motives", i, OfSuspect(Touch(db.motives[i], t), s), t)
DeleteMotive ==
    \E i \in DOMAIN db.motives : Delete("motives", i)

CreateTestimony ==
    /\ CanInsert("testimonies")
    /\ \E s \in Refs("suspects") : \E t1 \in ClockReads : \E t2 \in ClockReadsAfter(t1) :
         IF ~FkOk(s, "suspects") THEN Fail("NotFound", t2)
         ELSE Insert("testimonies", OfSuspect(BaseModel(t1, t2), s), t2)
SaveTestimony ==
    \E i \in DOMAIN db.testimonies, s \in Refs("suspects"), t \in ClockReads :
         IF ~FkOk(s, "suspects") THEN Fail("NotFound", t)
         ELSE Update("testimonies", i, OfSuspect(Touch(db.testimonies[i], t), s), t)
DeleteTestimony ==
    \E i \in DOMAIN db.testimonies : Delete("testimonies", i)

\* Clue: required case and location, nullable related_suspect.
ClueRow(base, c, l, s) ==
    [created_at |-> base.created_at, updated_at |-> base.updated_at,
     case |-> c, location |-> l, related_suspect |-> s]
ClueKeysOk(c, l, s) ==
    FkOk(c, "cases") /\ FkOk(l, "locations") /\ OptFkOk(s, "suspects")
CreateClue ==
    /\ CanInsert("clues")
    /\ \E c \in Refs("cases"), l \in Refs("locations"), s \in OptRefs("suspects") : \E t1 \in ClockReads : \E t2 \in ClockReadsAfter(t1) :
         IF ~ClueKeysOk(c, l, s) THEN Fail("NotFound", t2)
         ELSE Insert("clues", ClueRow(BaseModel(t1, t2), c, l, s), t2)
SaveClue ==
    \E i \in DOMAIN db.clues, c \in Refs("cases"), l \in Refs("locations"), s \in OptRefs("suspects"), t \in ClockReads :
         IF ~ClueKeysOk(c, l, s) THEN Fail("NotFound", t)
         ELSE Update("clues", i, ClueRow(Touch(db.clues[i], t), c, l, s), t)
DeleteClue ==
    \E i \in DOMAIN db.clues : Delete("clues", i)

\* Evidence: required case, nullable obtained_from and related_suspect.
EvidenceRow(base, c, l, s) ==
    [created_at |-> base.created_at, updated_at |-> base.updated_at,
     case |-> c, obtained_from |-> l, related_suspect |-> s]
EvidenceKeysOk(c, l, s) ==
    FkOk(c, "cases") /\ OptFkOk(l, "locations") /\ OptFkOk(s, "suspects")
CreateEvidence ==
    /\ CanInsert("evidences")
    /\ \E c \in Refs("cases"), l \in OptRefs("locations"), s \in OptRefs("suspects") : \E t1 \in ClockReads : \E t2 \in ClockReadsAfter(t1) :
         IF ~EvidenceKeysOk(c, l, s) THEN Fail("NotFound", t2)
         ELSE Insert("evidences", EvidenceRow(BaseModel(t1, t2), c, l, s), t2)
SaveEvidence ==
    \E i \in DOMAIN db.evidences, c \in Refs("cases"), l \in OptRefs("locations"), s \in OptRefs("suspects"), t \in ClockReads :
         IF ~EvidenceKeysOk(c, l, s) THEN Fail("NotFound", t)
         ELSE Update("evidences", i, EvidenceRow(Touch(db.evidences[i], t), c, l, s), t)
DeleteEvidence ==
    \E i \in DOMAIN db.evidences : Delete("evidences", i)

\* Message and CallRecord: required case, nullable related_suspect.
CommRow(base, c, s) ==
    [created_at |-> base.created_at, updated_at |-> base.updated_at,
     case |-> c, related_suspect |-> s]
CommKeysOk(c, s) == FkOk(c, "cases") /\ OptFkOk(s, "suspects")
CreateMessage ==
    /\ CanInsert("messages")
    /\ \E c \in Refs("cases"), s \in OptRefs("suspects") : \E t1 \in ClockReads : \E t2 \in ClockReadsAfter(t1) :
         IF ~CommKeysOk(c, s) THEN Fail("NotFound", t2)
         ELSE Insert("messages", CommRow(BaseModel(t1, t2), c, s), t2)
SaveMessage ==
    \E i \in DOMAIN db.messages, c \in Refs("cases"), s \in OptRefs("suspects"), t \in ClockReads :
         IF ~CommKeysOk(c, s) THEN Fail("NotFound", t)
         ELSE Update("messages", i, CommRow(Touch(db.messages[i], t), c, s), t)
DeleteMessage ==
    \E i \in DOMAIN db.messages : Delete("messages", i)

CreateCallRecord ==
    /\ CanInsert("calls")
    /\ \E c \in Refs("cases"), s \in OptRefs("suspects") : \E t1 \in ClockReads : \E t2 \in ClockReadsAfter(t1) :
         IF ~CommKeysOk(c, s) THEN Fail("NotFound", t2)
         ELSE Insert("calls", CommRow(BaseModel(t1, t2), c, s), t2)
SaveCallRecord ==
    \E i \in DOMAIN db.calls, c \in Refs("cases"), s \in OptRefs("suspects"), t \in ClockReads :
         IF ~CommKeysOk(c, s) THEN Fail("NotFound", t)
         ELSE Update("calls", i, CommRow(Touch(db.calls[i], t), c, s), t)
DeleteCallRecord ==
    \E i \in DOMAIN db.calls : Delete("calls", i)

\* ------------------------------------------------------------ accounts
\* Largest number of stored User rows.
MaxUsers == 2

\* An absent email argument (Python None), and the emails callers pass: the
\* empty string, one without "@", and ones that differ in letter case.
NoEmail == <<"None">>
Emails ==
    {<<>>, <<"J">>, <<"J", "@", "E">>, <<"j", "@", "E">>, <<"J", "@", "e">>,
     <<"@", "E">>}
NoPassword == "None"
\* No create_superuser call is between its two saves.
NoCall == [pc |-> "idle", id |-> None]
Passwords == {NoPassword, "pw"}
\* **extra_fields of create_user: none, or any of the two flags, set.
ExtraFields ==
    {[k \in K |-> TRUE] : K \in SUBSET {"is_staff", "is_superuser"}}

Lower(ch) == IF ch = "J" THEN "j" ELSE IF ch = "E" THEN "e" ELSE ch
\* Position of the last "@" of e, 0 if there is none (str.rsplit("@", 1)).
LastAt(e) ==
    IF \E k \in 1..Len(e) : e[k] = "@"
    THEN CHOOSE k \in 1..Len(e) :
           e[k] = "@" /\ \A m \in (k + 1)..Len(e) : e[m] # "@"
    ELSE 0
\* BaseUserManager.normalize_email: lower-cases what follows the last "@".
normalize_email(e) ==
    IF LastAt(e) = 0 THEN e
    ELSE [k \in 1..Len(e) |-> IF k > LastAt(e) THEN Lower(e[k]) ELSE e[k]]
\* set_password: None gives an unusable password, anything else its hash.
set_password(p) == IF p = NoPassword THEN "!" ELSE "hashed"
\* `not email`: None and the empty string.
Falsy(e) == e = NoEmail \/ e = <<>>

\* self.model(email=..., **extra_fields): the User columns with their defaults.
Flag(extra, k) == IF k \in DOMAIN extra THEN extra[k] ELSE FALSE
UserRow(e, p, extra) ==
    [email |-> normalize_email(e), password |-> set_password(p),
     is_active |-> TRUE, is_staff |-> Flag(extra, "is_staff"),
     is_superuser |-> Flag(extra, "is_superuser")]
\* unique=True on email.
EmailTaken(e) == \E u \in DOMAIN users : users[u].email = e
NewUserId == Cardinality(DOMAIN users) + 1
CanCreateUser == Cardinality(DOMAIN users) < MaxUsers

\* (mutation) the email is not checked.
CreateUserStatusNoCheck(e) ==
    IF EmailTaken(normalize_email(e)) THEN "Conflict" ELSE "ok"
\* UserManager.create_user(email, password, **extra_fields): how the call
\* ends.  The email is checked before anything is built or written
\* (ValueError); the unique email is checked by the INSERT (IntegrityError).
CreateUserStatus(e) ==
    IF Falsy(e) THEN "InvalidInput"
    ELSE IF EmailTaken(normalize_email(e)) THEN "Conflict"
    ELSE "ok"
create_user(e, p, extra) ==
    /\ CanCreateUser
    /\ last' = Outcome(CreateUserStatus(e))
    /\ users' = IF CreateUserStatus(e) = "ok"
                THEN Put(users, NewUserId, UserRow(e, p, extra))
                ELSE users
    /\ UNCHANGED <<db, now, su>>
CreateUser ==
    \E e \in Emails \cup {NoEmail}, p \in Passwords, extra \in ExtraFields :
        create_user(e, p, extra)

\* UserManager.create_superuser(email, password), line 28: the account is
\* created and saved by create_user with no extra fields; an exception of
\* create_user ends the call.
superuser_create(e, p) ==
    /\ su.pc # "created"
    /\ CanCreateUser
    /\ last' = Outcome(CreateUserStatus(e))
    /\ users' = IF CreateUserStatus(e) = "ok"
                THEN Put(users, NewUserId, UserRow(e, p, <<>>))
                ELSE users
    /\ su' = IF CreateUserStatus(e) = "ok"
             THEN [pc |-> "created", id |-> NewUserId]
             ELSE NoCall
    /\ UNCHANGED <<db, now>>
SuperuserCreate ==
    \E e \in Emails \cup {NoEmail}, p \in Passwords : superuser_create(e, p)
\* (mutation) is_superuser is left as it was.
ElevateStaffOnly(row) == [row EXCEPT !.is_staff = TRUE]
\* Lines 29-33: both flags are set on the instance, it is saved again and
\* returned.
Elevate(row) == [row EXCEPT !.is_staff = TRUE, !.is_superuser = TRUE]
SuperuserSave ==
    /\ su.pc = "created"
    /\ users' = Put(users, su.id, Elevate(users[su.id]))
    /\ su' = [su EXCEPT !.pc = "returned"]
    /\ last' = Outcome("ok")
    /\ UNCHANGED <<db, now>>

\* ------------------------------------------------------ specification
Init ==
    /\ db = [n \in Tables |-> Empty]
    /\ now = 0
    /\ users = Empty
    /\ su = NoCall
    /\ last = Outcome("ok")

Next ==
    \/ CreateVictim \/ CreateCase \/ CreateLocation \/ CreateSuspect \/ CreateMotive
    \/ CreateTestimony \/ CreateClue \/ CreateEvidence \/ CreateMessage \/ CreateCallRecord
    \/ SaveVictim \/ SaveCase \/ SaveLocation \/ SaveSuspect \/ SaveMotive
    \/ SaveTestimony \/ SaveClue \/ SaveEvidence \/ SaveMessage \/ SaveCallRecord
    \/ DeleteVictim \/ DeleteCase \/ DeleteLocation \/ DeleteSuspect \/ DeleteMotive
    \/ DeleteTestimony \/ DeleteClue \/ DeleteEvidence \/ DeleteMessage \/ DeleteCallRecord
Spec == Init /\ [][Next]_vars

NextAccounts == CreateUser \/ SuperuserCreate \/ SuperuserSave
SpecAccounts == Init /\ [][NextAccounts]_vars

\* ------------------------------------------------------------ properties
\* The eight kinds of row a Case owns, and the Case a row d[n][i] of one of
\* them names: through its own case key, or through its Suspect's.
Owned == Tables \ {"victims", "cases"}
ViaSuspect == {"motives", "testimonies"}
Owner(d, n, i) ==
    IF n \in ViaSuspect
    THEN IF d[n][i].suspect \in DOMAIN d.suspects
         THEN d.suspects[d[n][i].suspect].case ELSE None
    ELSE d[n][i].case
\* Names a Suspect through related_suspect.
Related == {"clues", "evidences", "messages", "calls"}
\* The Cases, Locations, Suspects and Victims this step removes.
GoneCases == DOMAIN db.cases \ DOMAIN db'.cases
GoneLocations == DOMAIN db.locations \ DOMAIN db'.locations
GoneSuspects == DOMAIN db.suspects \ DOMAIN db'.suspects
GoneVictims == DOMAIN db.victims \ DOMAIN db'.victims
\* The Case of a Clue's location.
LocationCase(d, k) ==
    IF d.clues[k].location \in DOMAIN d.locations
    THEN d.locations[d.clues[k].location].case ELSE None

\* C1 (as stated): a step that deletes Cases removes every Location, Suspect,
\* Clue, Evidence, Message, CallRecord, Motive and Testimony owned by them,
\* and every such row owned by another Case is still stored.
C1_CaseDeleteRemovesExactlyItsRows ==
    [][\A n \in Owned : \A i \in DOMAIN db[n] :
         /\ Owner(db, n, i) \in GoneCases => i \notin DOMAIN db'[n]
         /\ (GoneCases # {} /\ Owner(db, n, i) \notin GoneCases)
              => i \in DOMAIN db'[n]]_vars
\* C1 (amended): a step that deletes Cases removes every row of the eight
\* kinds owned by them; a row owned by another Case is still stored unless it
\* is a Clue whose location belongs to a deleted Case.
C1_CaseDeleteCascades ==
    [][\A n \in Owned : \A i \in DOMAIN db[n] :
         /\ Owner(db, n, i) \in GoneCases => i \notin DOMAIN db'[n]
         /\ ( /\ GoneCases # {}
              /\ Owner(db, n, i) \notin GoneCases
              /\ n = "clues" => LocationCase(db, i) \notin GoneCases )
              => i \in DOMAIN db'[n]]_vars
\* A Case was deleted, its Suspect and the Suspect's Motive went with it, and
\* another Case is still stored.
C1_Witness ==
    /\ last.seed = "cases"
    /\ {"suspects", "motives"} \subseteq last.removed
    /\ DOMAIN db.cases # {}

\* C2 (as stated): deleting a Location keeps every Clue at it, with the
\* location cleared; deleting a Case deletes its Clues.
C2_LocationDeleteKeepsClue ==
    [][/\ GoneCases = {} =>
            \A k \in DOMAIN db.clues :
                db.clues[k].location \in GoneLocations
                  => k \in DOMAIN db'.clues /\ db'.clues[k].location = None
       /\ \A k \in DOMAIN db.clues :
            db.clues[k].case \in GoneCases => k \notin DOMAIN db'.clues]_vars
\* C2 (amended): deleting a Location deletes every Clue at it and keeps every
\* Evidence obtained from it, with obtained_from cleared and nothing else
\* changed; deleting a Case deletes its Clues.
C2_LocationDeleteCascadesToClue ==
    [][/\ GoneCases = {} =>
            /\ \A k \in DOMAIN db.clues :
                 db.clues[k].location \in GoneLocations => k \notin DOMAIN db'.clues
            /\ \A e \in DOMAIN db.evidences :
                 db.evidences[e].obtained_from \in GoneLocations
                   => /\ e \in DOMAIN db'.evidences
                      /\ db'.evidences[e] =
                           [db.evidences[e] EXCEPT !.obtained_from = None]
       /\ \A k \in DOMAIN db.clues :
            db.clues[k].case \in GoneCases => k \notin DOMAIN db'.clues]_vars
\* A Location was deleted on its own; a Clue went with it and an Evidence had
\* its key cleared.
C2_Witness ==
    /\ last.seed = "locations"
    /\ last.removed = {"locations", "clues"}
    /\ "evidences" \in last.nulled
    /\ \E e \in DOMAIN db.evidences : db.evidences[e].obtained_from = None

\* C3: deleting a Suspect on its own deletes its Motives and Testimonies and
\* keeps every Clue, Evidence, Message and CallRecord that names it, with
\* related_suspect cleared and every other column as it was.
C3_SuspectDeleteNullsRelated ==
    [][GoneCases = {} =>
         /\ \A n \in Related : \A i \in DOMAIN db[n] :
              db[n][i].related_suspect \in GoneSuspects
                => /\ i \in DOMAIN db'[n]
                   /\ db'[n][i] = [db[n][i] EXCEPT !.related_suspect = None]
         /\ \A n \in ViaSuspect : \A i \in DOMAIN db[n] :
              db[n][i].suspect \in GoneSuspects => i \notin DOMAIN db'[n]]_vars
\* A Suspect was deleted on its own; a Motive went with it and a row that
\* named it had the key cleared.
C3_Witness ==
    /\ last.seed = "suspects"
    /\ "motives" \in last.removed
    /\ last.nulled # {}
    /\ \E n \in Related : \E i \in DOMAIN db[n] : db[n][i].related_suspect = None

\* C4: deleting a Victim deletes the Case that names it and every row that
\* Case owns; deleting a Case keeps its Victim, unchanged and named by no Case.
C4_VictimCaseAsymmetry ==
    [][/\ \A c \in DOMAIN db.cases :
            db.cases[c].victim \in GoneVictims
              => /\ c \in GoneCases
                 /\ \A n \in Owned : \A i \in DOMAIN db[n] :
                      Owner(db, n, i) = c => i \notin DOMAIN db'[n]
       /\ \A c \in GoneCases :
            (db.cases[c].victim # None /\ last'.seed = "cases")
              => /\ db.cases[c].victim \in DOMAIN db'.victims
                 /\ db'.victims[db.cases[c].victim] = db.victims[db.cases[c].victim]
                 /\ \A c2 \in DOMAIN db'.cases :
                      db'.cases[c2].victim # db.cases[c].victim]_vars
\* A Victim was deleted and its Case and the Case's Location went with it.
C4_Witness ==
    last.seed = "victims" /\ {"cases", "locations"} \subseteq last.removed

\* C5: no two stored Cases name the same Victim; a write refused with
\* Conflict names a Victim another Case already has and changes no table.
CasesOfVictim(v) == {c \in DOMAIN db.cases : db.cases[c].victim = v}
C5_OneCasePerVictim ==
    /\ [](\A v \in DOMAIN db.victims : Cardinality(CasesOfVictim(v)) <= 1)
    /\ [][last'.status = "Conflict" =>
            /\ db' = db
            /\ \E v \in DOMAIN db.victims : CasesOfVictim(v) # {}]_vars
\* A Case write was refused with Conflict while two Cases are stored, one of
\* them with the Victim.
C5_Witness ==
    /\ last.status = "Conflict"
    /\ Cardinality(DOMAIN db.cases) = 2
    /\ \E v \in DOMAIN db.victims : Cardinality(CasesOfVictim(v)) = 1

\* C8 (as stated): every stored row other than a User belongs to exactly one
\* Case through its required keys (a Victim: the Cases that name it).
CasesReached(n, i) ==
    IF n = "victims" THEN CasesOfVictim(i)
    ELSE IF n = "clues" THEN {Owner(db, n, i), LocationCase(db, i)}
    ELSE {Owner(db, n, i)}
C8_ExactlyOneCase ==
    \A n \in Tables \ {"cases"} : \A i \in DOMAIN db[n] :
        /\ CasesReached(n, i) \subseteq DOMAIN db.cases
        /\ Cardinality(CasesReached(n, i)) = 1
\* C8 (amended): every stored Location, Suspect, Motive, Testimony, Clue,
\* Evidence, Message and CallRecord names one stored Case through its case
\* key (Motive, Testimony: its Suspect's); a Victim is named by at most one
\* Case, possibly none; a Clue's location belongs to a stored Case, which
\* need not be the Clue's own.
C8_OwnedByAStoredCase ==
    /\ \A n \in Owned : \A i \in DOMAIN db[n] : Owner(db, n, i) \in DOMAIN db.cases
    /\ \A v \in DOMAIN db.victims : Cardinality(CasesOfVictim(v)) <= 1
    /\ \A k \in DOMAIN db.clues : LocationCase(db, k) \in DOMAIN db.cases
\* A Clue of one Case found at a Location of another.
C8_Witness ==
    \E k \in DOMAIN db.clues : LocationCase(db, k) # db.clues[k].case

\* C10: every key of every stored row is absent (nullable keys only) or names
\* a stored row of its table; a write refused with NotFound changes no table.
KeyOk(ref, name) == ref \in DOMAIN db[name]
OptKeyOk(ref, name) == ref = None \/ ref \in DOMAIN db[name]
RelatedOk(n) == \A i \in DOMAIN db[n] : OptKeyOk(db[n][i].related_suspect, "suspects")
CaseKeyOk(n) == \A i \in DOMAIN db[n] : KeyOk(db[n][i].case, "cases")
ReferentialIntegrity ==
    /\ \A c \in DOMAIN db.cases : OptKeyOk(db.cases[c].victim, "victims")
    /\ \A n \in Owned \ ViaSuspect : CaseKeyOk(n)
    /\ \A n \in ViaSuspect : \A i \in DOMAIN db[n] : KeyOk(db[n][i].suspect, "suspects")
    /\ \A k \in DOMAIN db.clues : KeyOk(db.clues[k].location, "locations")
    /\ \A e \in DOMAIN db.evidences : OptKeyOk(db.evidences[e].obtained_from, "locations")
    /\ \A n \in Related : RelatedOk(n)
C10_ReferentialIntegrity ==
    /\ []ReferentialIntegrity
    /\ [][last'.status = "NotFound" => db' = db]_vars
\* A write was refused with NotFound while a row that holds keys is stored.
C10_Witness ==
    /\ last.status = "NotFound"
    /\ \E e \in DOMAIN db.evidences : db.evidences[e].related_suspect # None

\* C9 (as stated): created_at never changes once the row is stored;
\* updated_at equals created_at when the row is created, never decreases
\* afterwards and is never below created_at.
C9_UpdatedEqualsCreatedAtCreation ==
    [][\A n \in Tables : \A i \in DOMAIN db'[n] :
         IF i \in DOMAIN db[n]
         THEN /\ db'[n][i].created_at = db[n][i].created_at
              /\ db'[n][i].updated_at >= db[n][i].updated_at
              /\ db'[n][i].updated_at >= db'[n][i].created_at
         ELSE db'[n][i].updated_at = db'[n][i].created_at]_vars
\* C9 (amended): created_at never changes once the row is stored; updated_at
\* is at least created_at when the row is created (each comes from its own
\* read of the clock), never decreases afterwards and is never below
\* created_at.
C9_Timestamps ==
    [][\A n \in Tables : \A i \in DOMAIN db'[n] :
         /\ db'[n][i].updated_at >= db'[n][i].created_at
         /\ db'[n][i].updated_at <= now'
         /\ i \in DOMAIN db[n] =>
              /\ db'[n][i].created_at = db[n][i].created_at
              /\ db'[n][i].updated_at >= db[n][i].updated_at]_vars
\* A stored row whose updated_at has moved past its created_at.
C9_Witness ==
    \E n \in Tables : \E i \in DOMAIN db[n] : db[n][i].updated_at > db[n][i].created_at

\* C6: no stored User has an empty email; create_user and create_superuser
\* called with an empty or absent email end with InvalidInput, and a call
\* that ends so has written nothing and left no account half made.
C6_EmptyEmailRejected ==
    /\ [](\A u \in DOMAIN users : ~Falsy(users[u].email))
    /\ [][last'.status = "InvalidInput" =>
            users' = users /\ (su'.pc = "created" => su' = su)]_vars
    /\ [][\A e \in {NoEmail, <<>>} : \A p \in Passwords :
            (superuser_create(e, p) \/ \E x \in ExtraFields : create_user(e, p, x))
              => last'.status = "InvalidInput" /\ users' = users]_vars
\* A call was refused with InvalidInput while a User is stored.
C6_Witness ==
    last.status = "InvalidInput" /\ DOMAIN users # {}

\* C7: once create_superuser has returned, the stored account has is_staff
\* and is_superuser set; an account made by create_user with no extra fields
\* has neither.
C7_SuperuserFlags ==
    /\ [](su.pc = "returned" =>
            /\ su.id \in DOMAIN users
            /\ users[su.id].is_staff
            /\ users[su.id].is_superuser)
    /\ [][\A e \in Emails : \A p \in Passwords :
            (create_user(e, p, <<>>) /\ last'.status = "ok")
              => /\ ~users'[NewUserId].is_staff
                 /\ ~users'[NewUserId].is_superuser]_vars
\* create_superuser has returned, and a plain account is stored beside it.
C7_Witness ==
    /\ su.pc = "returned"
    /\ \E u \in DOMAIN users \ {su.id} : ~users[u].is_staff /\ ~users[u].is_superuser
====
